---- MODULE Spec2Model ----
(***************************************************************************)
(* Model of the delivery load planner: the greedy 3D packer of             *)
(* pack_dispatch.py with its LoadPlan / Placement writes, and the stop     *)
(* sequencers of routing_opt.py (nearest neighbour + 2-opt) and            *)
(* optimize_route.py (nearest neighbour, two-phase rank rewrite).          *)
(*                                                                         *)
(* Lengths are whole centimetres (multiples of 100) and weights whole       *)
(* pounds (multiples of 200).  Distances are whole kilometres, so the 1e-9 *)
(* margin of two_opt is the strict "<".                                    *)
(***************************************************************************)
EXTENDS Integers, Sequences, FiniteSets, TLC

\* ------------------------------------------------------------------ bounds
MaxPkgs == 3
MaxDim == 2
MaxWeight == 2
MaxTruckWeight == 5
MaxRank == 2
MaxStops == 5
MaxLat == 6
MaxSide == 2
ManyStops == 1003

VARIABLES
    \* pack_dispatch.pack
    truck,        \* (L, W, H, max_weight) as get_truck returns it
    packages,     \* the rows of load_packages the loop has consumed so far
    pk,           \* pack's locals: x, y, z, row_depth, layer_height, placed, total_weight
    pack_pc,      \* where pack stands
    LoadPlan,     \* committed rows of wh.LoadPlan, as any reader sees them
    Placement,    \* committed rows of wh.Placement
    ranks_seen,   \* the stop ranks load_packages has read, <<>> before it has
    \* routing_opt.recompute_dispatch_sequence and optimize_route.optimize_route
    prog,         \* which of the two sequencers runs
    coords,       \* (Latitude, Longitude) of the stop in row idx of the frame (idx from 0)
    Sequence,     \* committed wh.DispatchStop.Sequence, by Stop_id
    txn,          \* the ranks inside the open executemany transaction, <<>> if none
    route_pc,     \* where the sequencer stands
    tour,         \* nearest_neighbor: tour
    unvisited,    \* nearest_neighbor: unvisited
    best,         \* two_opt: best
    improved,     \* two_opt: improved
    i,            \* two_opt: i
    j,            \* two_opt: j
    route_idx,    \* nearest_neighbor_order: route_idx
    remaining,    \* nearest_neighbor_order: remaining
    k             \* rows of the rank update executed so far

pack_vars == <<truck, packages, pk, pack_pc, LoadPlan, Placement, ranks_seen>>
route_vars == <<prog, coords, Sequence, txn, route_pc, tour, unvisited, best,
                improved, i, j, route_idx, remaining, k>>
vars == <<pack_vars, route_vars>>

\* ----------------------------------------------------------------- helpers
Max(a, b) == IF a >= b THEN a ELSE b
Abs(a) == IF a >= 0 THEN a ELSE 0 - a

RECURSIVE SumSeq(_)
SumSeq(s) == IF s = <<>> THEN 0 ELSE Head(s) + SumSeq(Tail(s))

RECURSIVE GCD(_, _)
GCD(a, b) == IF b = 0 THEN a ELSE GCD(b, a % b)

\* Python's round(num / den * 100, 1), as tenths of a percent, den > 0:
\* to the nearest tenth.  The fraction is reduced first, which keeps the
\* products within 32 bits.  (An exact tie goes to the even tenth; with
\* floats the quotient decides a tie, and none occurs for the sizes and
\* weights drawn here.)
RoundTenths(num, den) ==
    LET g == GCD(num, den)
        n == num \div g
        d == den \div g
        q == (2000 * n + d) \div (2 * d)
        tie == (2000 * n + d) % (2 * d) = 0
    IN  IF tie /\ q % 2 = 1 THEN q - 1 ELSE q

\* ------------------------------------------------------------- pack inputs
\* Truck sizes include 0: nothing between the tables and the loop checks
\* them (get_truck only converts the types).
TruckDims == {100 * n : n \in 0..MaxDim}
PkgDims == {100 * n : n \in 1..MaxDim}
PkgWeights == {200 * n : n \in 1..MaxWeight}
TruckWeights == {200 * n : n \in 0..MaxTruckWeight}

Trucks == [L : TruckDims, W : TruckDims, H : TruckDims, max_weight : TruckWeights]

Rows == [Package_id : 1..MaxPkgs, Weight_lbs : PkgWeights,
         Length_cm : PkgDims, Width_cm : PkgDims, Height_cm : PkgDims,
         StopSequence : 1..MaxRank]

\* ORDER BY ds.Sequence DESC, p.Weight_lbs DESC: r may follow the rows read so far.
load_packages_order(prev, r) ==
    IF prev = <<>> THEN TRUE
    ELSE LET p == prev[Len(prev)]
         IN  \/ p.StopSequence > r.StopSequence
             \/ p.StopSequence = r.StopSequence /\ p.Weight_lbs >= r.Weight_lbs

\* ---------------------------------------------------------- the pack loop
pack_locals == [x |-> 0, y |-> 0, z |-> 0, row_depth |-> 0, layer_height |-> 0,
                placed |-> <<>>, total_weight |-> 0]

\* Variant: the limit tested against the weight already loaded only.
weight_exceeded_before_adding(st, r, t) == st.total_weight > t.max_weight

weight_exceeded(st, r, t) == st.total_weight + r.Weight_lbs > t.max_weight

\* Variant: the wrap in x goes back to x = 0 in the same row.
move_across_x_same_row(st, r, t) ==
    IF st.x + r.Length_cm > t.L
    THEN [st EXCEPT !.x = 0, !.row_depth = 0]
    ELSE st

\* Variant: ">=" in place of ">", a package may not touch the far wall.
move_across_x_at_wall(st, r, t) ==
    IF st.x + r.Length_cm >= t.L
    THEN [st EXCEPT !.x = 0, !.y = st.y + st.row_depth, !.row_depth = 0]
    ELSE st

move_across_x(st, r, t) ==
    IF st.x + r.Length_cm > t.L
    THEN [st EXCEPT !.x = 0, !.y = st.y + st.row_depth, !.row_depth = 0]
    ELSE st

\* Variant: the wrap in y goes back to the front without rising by the layer.
new_row_in_y_same_layer(st, r, t) ==
    IF st.y + r.Width_cm > t.W
    THEN [st EXCEPT !.x = 0, !.y = 0, !.layer_height = 0]
    ELSE st

new_row_in_y(st, r, t) ==
    IF st.y + r.Width_cm > t.W
    THEN [st EXCEPT !.x = 0, !.y = 0, !.z = st.z + st.layer_height, !.layer_height = 0]
    ELSE st

\* Variant: ">=" in place of ">", a package may not touch the ceiling.
no_vertical_space_at_ceiling(st, r, t) == st.z + r.Height_cm >= t.H

no_vertical_space(st, r, t) == st.z + r.Height_cm > t.H

placement(st, r) ==
    [Package_id |-> r.Package_id,
     X_cm |-> st.x, Y_cm |-> st.y, Z_cm |-> st.z,
     Length_cm |-> r.Length_cm, Width_cm |-> r.Width_cm, Height_cm |-> r.Height_cm,
     StopSequence |-> r.StopSequence]

\* Variant: the placement put in front of the list.
place_in_front(st, r) ==
    [st EXCEPT !.placed = <<placement(st, r)>> \o st.placed,
               !.total_weight = st.total_weight + r.Weight_lbs,
               !.x = st.x + r.Length_cm,
               !.row_depth = Max(st.row_depth, r.Width_cm),
               !.layer_height = Max(st.layer_height, r.Height_cm)]

\* Variant: the placement appended a second time.
place_twice(st, r) ==
    [st EXCEPT !.placed = Append(Append(st.placed, placement(st, r)), placement(st, r)),
               !.total_weight = st.total_weight + r.Weight_lbs,
               !.x = st.x + r.Length_cm,
               !.row_depth = Max(st.row_depth, r.Width_cm),
               !.layer_height = Max(st.layer_height, r.Height_cm)]

place(st, r) ==
    [st EXCEPT !.placed = Append(st.placed, placement(st, r)),
               !.total_weight = st.total_weight + r.Weight_lbs,
               !.x = st.x + r.Length_cm,
               !.row_depth = Max(st.row_depth, r.Width_cm),
               !.layer_height = Max(st.layer_height, r.Height_cm)]

\* Variant: a package that does not fit the width left is skipped, no new
\* layer is opened for it.
pack_iteration_without_layers(st, r, t) ==
    IF weight_exceeded(st, r, t) THEN st
    ELSE LET c == move_across_x(st, r, t)
         IN  IF c.y + r.Width_cm > t.W \/ no_vertical_space(c, r, t) THEN c
             ELSE place(c, r)

\* One iteration of "for _, r in packages.iterrows()".
pack_iteration(st, r, t) ==
    IF weight_exceeded(st, r, t) THEN st
    ELSE LET c == new_row_in_y(move_across_x(st, r, t), r, t)
         IN  IF no_vertical_space(c, r, t) THEN c ELSE place(c, r)

\* The whole loop over a frame, from the locals st.
RECURSIVE pack_rows(_, _, _)
pack_rows(st, rows, t) ==
    IF rows = <<>> THEN st
    ELSE pack_rows(pack_iteration(st, Head(rows), t), Tail(rows), t)

\* Variant: the percentage cut to one decimal instead of rounded.
util_weight_truncated(st, t) ==
    IF t.max_weight > 0 THEN (1000 * st.total_weight) \div t.max_weight ELSE 0

util_weight(st, t) ==
    IF t.max_weight > 0 THEN RoundTenths(st.total_weight, t.max_weight) ELSE 0

used_volume(st) ==
    SumSeq([q \in 1..Len(st.placed) |->
              st.placed[q].Length_cm * st.placed[q].Width_cm * st.placed[q].Height_cm])

util_volume(st, t) ==
    IF t.L * t.W * t.H > 0 THEN RoundTenths(used_volume(st), t.L * t.W * t.H) ELSE 0

\* The rows of the Placement insert.
placement_rows(loadplan_id, st) ==
    {[Loadplan_id |-> loadplan_id, Package_id |-> st.placed[q].Package_id,
      X_cm |-> st.placed[q].X_cm, Y_cm |-> st.placed[q].Y_cm, Z_cm |-> st.placed[q].Z_cm]
        : q \in 1..Len(st.placed)}

\* ------------------------------------------------------------ pack actions
\* No sequencer runs.
RouteIdle ==
    /\ prog = "none"
    /\ coords = <<>>
    /\ Sequence = <<>>
    /\ txn = <<>>
    /\ route_pc = "idle"
    /\ tour = <<>>
    /\ unvisited = {}
    /\ best = <<>>
    /\ improved = FALSE
    /\ i = 0
    /\ j = 0
    /\ route_idx = <<>>
    /\ remaining = <<>>
    /\ k = 0

\* pack has its frame (the rows are drawn as the loop takes them) and its truck.
PackInit ==
    /\ truck \in Trucks
    /\ packages = <<>>
    /\ pk = pack_locals
    /\ pack_pc = "loop"
    /\ LoadPlan = {}
    /\ Placement = {}
    /\ ranks_seen = <<>>
    /\ RouteIdle

\* The loop takes the next row of the frame.
PackIterate ==
    /\ pack_pc = "loop"
    /\ Len(packages) < MaxPkgs
    /\ \E r \in Rows :
          /\ r.Package_id = Len(packages) + 1
          /\ load_packages_order(packages, r)
          /\ packages' = Append(packages, r)
          /\ pk' = pack_iteration(pk, r, truck)
    /\ UNCHANGED <<truck, pack_pc, LoadPlan, Placement, ranks_seen, route_vars>>

\* The frame is exhausted: the utilization metrics, then
\* db.scalar(INSERT INTO wh.LoadPlan ... OUTPUT INSERTED.Loadplan_id), on its
\* own connection, committed when db.scalar's "with" block is left.
PackInsertLoadPlan ==
    /\ pack_pc = "loop"
    /\ LoadPlan' = LoadPlan \cup {[Loadplan_id |-> 1,
                                   Util_weight_pct |-> util_weight(pk, truck),
                                   Util_volume_pct |-> util_volume(pk, truck)]}
    /\ pack_pc' = "insert_placements"
    /\ UNCHANGED <<truck, packages, pk, Placement, ranks_seen, route_vars>>

\* "if rows: db.execmany(INSERT INTO wh.Placement ...)": a second connection,
\* all rows in one transaction; then pack returns.
PackInsertPlacements ==
    /\ pack_pc = "insert_placements"
    /\ Placement' = Placement \cup placement_rows(1, pk)
    /\ pack_pc' = "done"
    /\ UNCHANGED <<truck, packages, pk, LoadPlan, ranks_seen, route_vars>>

\* Variant: db.execmany called without the "if rows" test, so that it can
\* raise for an empty row list as well.
PackDbError_without_rows_test ==
    /\ pack_pc \in {"loop", "insert_placements"}
    /\ pack_pc' = "failed"
    /\ UNCHANGED <<truck, packages, pk, LoadPlan, Placement, ranks_seen, route_vars>>

\* A database call raises (connection lost, insert refused): nothing of that
\* call is committed, pack has no handler, what was committed before stays.
PackDbError ==
    /\ \/ pack_pc = "loop"
       \/ pack_pc = "insert_placements" /\ pk.placed # <<>>
    /\ pack_pc' = "failed"
    /\ UNCHANGED <<truck, packages, pk, LoadPlan, Placement, ranks_seen, route_vars>>

PackNext ==
    \/ PackIterate
    \/ PackInsertLoadPlan
    \/ PackInsertPlacements
    \/ PackDbError

PackSpec == PackInit /\ [][PackNext]_vars

\* -------------------------------------------------------------- sequencers
\* Stops lie at whole degrees, a few degrees from the equator.  On one
\* meridian the haversine distance is the difference of the latitudes times
\* the length of a degree (pi * R / 180, about 111 km); between meridians it
\* is, to within one percent, the planar distance, taken to the kilometre
\* below.
KmPerDegree == 111
SequenceShift == 1000
\* best_d = 1e12, written as the largest round number a 32-bit integer holds:
\* no haversine distance in km reaches either.
best_d_start == 2000000000
None == -1

\* math.sqrt, to the whole number below.
Isqrt(n) == CHOOSE r \in 0..n : r * r <= n /\ (r + 1) * (r + 1) > n

\* routing_opt.haversine_km of the points a and b, each (lat, lon).
haversine_km(a, b) ==
    IF a[2] = b[2] THEN KmPerDegree * Abs(b[1] - a[1])
    ELSE Isqrt(KmPerDegree * KmPerDegree
                 * ((b[1] - a[1]) * (b[1] - a[1]) + (b[2] - a[2]) * (b[2] - a[2])))

\* optimize_route.haversine_km (the atan2 form) of the points a and b.
opt_haversine_km(a, b) ==
    IF a[2] = b[2] THEN KmPerDegree * Abs(b[1] - a[1])
    ELSE Isqrt(KmPerDegree * KmPerDegree
                 * ((b[1] - a[1]) * (b[1] - a[1]) + (b[2] - a[2]) * (b[2] - a[2])))

\* The frame is ordered by Sequence; its row idx holds this Stop_id.
Stop_id(idx) == 101 + idx
StopIds(c) == {Stop_id(idx) : idx \in DOMAIN c}

\* Python's s[p] and s[-1] for a list s.
At(s, p) == s[p + 1]
Last(s) == s[Len(s)]
Reversed(s) == [p \in 1..Len(s) |-> s[Len(s) + 1 - p]]

route_length(order, c) ==
    SumSeq([p \in 1..(Len(order) - 1) |-> haversine_km(c[order[p]], c[order[p + 1]])])

\* min(unvisited, key=distance from last): the first minimal element met; a
\* set of small ints is iterated in ascending order.
nearest_unvisited(unv, last, c) ==
    CHOOSE m \in unv : \A o \in unv :
        \/ haversine_km(c[last], c[m]) < haversine_km(c[last], c[o])
        \/ haversine_km(c[last], c[m]) = haversine_km(c[last], c[o]) /\ m <= o

\* Variant: a margin of three degrees of latitude in place of 1e-9.
two_opt_shorter_by_margin(b, pi, pj, c) ==
    LET old == haversine_km(c[At(b, pi - 1)], c[At(b, pi)])
                 + haversine_km(c[At(b, pj)], c[At(b, pj + 1)])
        new == haversine_km(c[At(b, pi - 1)], c[At(b, pj)])
                 + haversine_km(c[At(b, pi)], c[At(b, pj + 1)])
    IN  new + 3 * KmPerDegree < old

\* Variant: "<=" in place of "<" in the test of two_opt.
two_opt_shorter_or_equal(b, pi, pj, c) ==
    LET old == haversine_km(c[At(b, pi - 1)], c[At(b, pi)])
                 + haversine_km(c[At(b, pj)], c[At(b, pj + 1)])
        new == haversine_km(c[At(b, pi - 1)], c[At(b, pj)])
                 + haversine_km(c[At(b, pi)], c[At(b, pj + 1)])
    IN  new <= old

\* two_opt's test "new + 1e-9 < old" (distances here are whole kilometres).
two_opt_shorter(b, pi, pj, c) ==
    LET old == haversine_km(c[At(b, pi - 1)], c[At(b, pi)])
                 + haversine_km(c[At(b, pj)], c[At(b, pj + 1)])
        new == haversine_km(c[At(b, pi - 1)], c[At(b, pj)])
                 + haversine_km(c[At(b, pi)], c[At(b, pj + 1)])
    IN  new < old

\* Variant: best[i:j + 1] = reversed(best[i:j]), which loses best[j].
reverse_slice_short(b, pi, pj) ==
    SubSeq(b, 1, pi) \o Reversed(SubSeq(b, pi + 1, pj)) \o SubSeq(b, pj + 2, Len(b))

\* Variant: best[i - 1:j + 1] reversed, which takes in the element before i.
reverse_slice_from_before(b, pi, pj) ==
    SubSeq(b, 1, pi - 1) \o Reversed(SubSeq(b, pi, pj + 1)) \o SubSeq(b, pj + 2, Len(b))

\* best[i:j + 1] = reversed(best[i:j + 1])
reverse_slice(b, pi, pj) ==
    SubSeq(b, 1, pi) \o Reversed(SubSeq(b, pi + 1, pj + 1)) \o SubSeq(b, pj + 2, Len(b))

\* Variant: "<=" in place of "<", the last of the nearest candidates wins.
nearest_turn_or_equal(bjd, v, last, c) ==
    LET d == opt_haversine_km(c[last], c[v])
    IN  IF d <= bjd[2] THEN <<v, d>> ELSE bjd

\* One turn of nearest_neighbor_order's inner "for j in remaining", at the
\* candidate v: the pair (best_j, best_d) after it.
nearest_turn(bjd, v, last, c) ==
    LET d == opt_haversine_km(c[last], c[v])
    IN  IF d < bjd[2] THEN <<v, d>> ELSE bjd

\* The turns for rem[lo..hi] in order, from the pair bjd.  The range is
\* split in halves, which keeps the evaluation shallow for a long list; no
\* distance is negative, the test on half[2] only has the first half
\* evaluated before the second starts.
RECURSIVE nearest_turns(_, _, _, _, _, _)
nearest_turns(rem, lo, hi, last, c, bjd) ==
    IF lo > hi THEN bjd
    ELSE IF lo = hi THEN nearest_turn(bjd, rem[lo], last, c)
    ELSE LET mid == (lo + hi) \div 2
             half == nearest_turns(rem, lo, mid, last, c, bjd)
         IN  IF half[2] < 0 THEN half
             ELSE nearest_turns(rem, mid + 1, hi, last, c, half)

\* nearest_neighbor_order's inner "for j in remaining", from (best_j, best_d).
nearest_scan(rem, last, c, best_j, best_d) ==
    nearest_turns(rem, 1, Len(rem), last, c, <<best_j, best_d>>)[1]

list_remove(lst, v) == SelectSeq(lst, LAMBDA e : e # v)

\* Variant: enumerate(order) without start=1.
rank_rows_from_zero(order) == [p \in 1..Len(order) |-> <<p - 1, Stop_id(order[p])>>]

\* enumerate(order, start=1) as (new rank, Stop_id) rows.
rank_rows(order) == [p \in 1..Len(order) |-> <<p, Stop_id(order[p])>>]

\* UPDATE wh.DispatchStop SET Sequence = ? WHERE Stop_id = ?
update_sequence(t, row) == [t EXCEPT ![row[2]] = row[1]]

\* The order the running sequencer has computed, and its update rows.
computed_order == IF prog = "routing_opt" THEN best ELSE route_idx
update_rows == rank_rows(computed_order)

has_duplicate_rank(t) == \E s1, s2 \in DOMAIN t : s1 # s2 /\ t[s1] = t[s2]

\* -------------------------------------------------------- sequencer actions
\* No pack runs.
PackIdle ==
    /\ truck = [L |-> 0, W |-> 0, H |-> 0, max_weight |-> 0]
    /\ packages = <<>>
    /\ pk = pack_locals
    /\ pack_pc = "idle"
    /\ LoadPlan = {}
    /\ Placement = {}
    /\ ranks_seen = <<>>

\* The frames of stops: 1..MaxStops stops on the meridian 0, and the four
\* corners of a square with one side on the equator, first a corner on the
\* equator, then the opposite corner, then the two others.
Meridians == UNION {[0..(n - 1) -> {<<lat, 0>> : lat \in 0..MaxLat}] : n \in 1..MaxStops}
crossed_square(s, w, swapped) ==
    LET a == <<0, w>>
        c == <<s, s - w>>
        b == <<0, s - w>>
        d == <<s, w>>
        corners == IF swapped THEN <<a, c, d, b>> ELSE <<a, c, b, d>>
    IN  [idx \in 0..3 |-> corners[idx + 1]]
Squares ==
    UNION {{crossed_square(s, w, sw) : w \in {0, s}, sw \in BOOLEAN} : s \in 1..MaxSide}

\* A dispatch of stops ranked 1..N, row idx of the frame holding rank idx + 1.
RouteInit ==
    /\ prog \in {"routing_opt", "optimize_route"}
    /\ coords \in Meridians \cup Squares
    /\ Sequence = [s \in StopIds(coords) |-> s - Stop_id(0) + 1]
    /\ txn = <<>>
    /\ route_pc = "start"
    /\ tour = <<>>
    /\ unvisited = {}
    /\ best = <<>>
    /\ improved = FALSE
    /\ i = 0
    /\ j = 0
    /\ route_idx = <<>>
    /\ remaining = <<>>
    /\ k = 0
    /\ PackIdle

\* recompute_dispatch_sequence reads the frame; nearest_neighbor(coords, 0) starts.
RecomputeStart ==
    /\ prog = "routing_opt" /\ route_pc = "start"
    /\ tour' = <<0>>
    /\ unvisited' = DOMAIN coords \ {0}
    /\ route_pc' = "nn"
    /\ UNCHANGED <<prog, coords, Sequence, txn, best, improved, i, j, route_idx,
                   remaining, k, pack_vars>>

\* One turn of "while unvisited".
NearestNeighborStep ==
    /\ prog = "routing_opt" /\ route_pc = "nn"
    /\ unvisited # {}
    /\ LET nxt == nearest_unvisited(unvisited, Last(tour), coords)
       IN  /\ tour' = Append(tour, nxt)
           /\ unvisited' = unvisited \ {nxt}
    /\ UNCHANGED <<prog, coords, Sequence, txn, route_pc, best, improved, i, j,
                   route_idx, remaining, k, pack_vars>>

\* nearest_neighbor returns; two_opt(nn_order, coords) starts: best = order[:].
TwoOptStart ==
    /\ prog = "routing_opt" /\ route_pc = "nn"
    /\ unvisited = {}
    /\ best' = tour
    /\ improved' = TRUE
    /\ route_pc' = "two_opt"
    /\ UNCHANGED <<prog, coords, Sequence, txn, tour, unvisited, i, j, route_idx,
                   remaining, k, pack_vars>>

\* "while improved": a new pass starts (i = 1, j = 2 when the ranges are not
\* empty), or two_opt returns and the executemany of the rank rows begins.
TwoOptWhile ==
    /\ prog = "routing_opt" /\ route_pc = "two_opt"
    /\ \/ /\ improved
          /\ improved' = FALSE
          /\ IF 1 < Len(best) - 2
             THEN i' = 1 /\ j' = 2 /\ route_pc' = "scan"
             ELSE UNCHANGED <<i, j, route_pc>>
          /\ UNCHANGED <<txn, k>>
       \/ /\ ~improved
          /\ txn' = Sequence
          /\ k' = 0
          /\ route_pc' = "write"
          /\ UNCHANGED <<improved, i, j>>
    /\ UNCHANGED <<prog, coords, Sequence, tour, unvisited, best, route_idx,
                   remaining, pack_vars>>

\* The body of the inner loop at (i, j), then the step to the next pair.
TwoOptCompare ==
    /\ prog = "routing_opt" /\ route_pc = "scan"
    /\ LET shorter == two_opt_shorter(best, i, j, coords)
       IN  /\ best' = IF shorter THEN reverse_slice(best, i, j) ELSE best
           /\ improved' = (improved \/ shorter)
    /\ IF j + 1 < Len(best) - 1
       THEN j' = j + 1 /\ UNCHANGED <<i, route_pc>>
       ELSE IF i + 1 < Len(best) - 2
            THEN i' = i + 1 /\ j' = i + 2 /\ UNCHANGED route_pc
            ELSE route_pc' = "two_opt" /\ UNCHANGED <<i, j>>
    /\ UNCHANGED <<prog, coords, Sequence, txn, tour, unvisited, route_idx,
                   remaining, k, pack_vars>>

\* Variant: without the early return for a single stop.
OptimizeStart_without_early_return ==
    /\ prog = "optimize_route" /\ route_pc = "start"
    /\ route_idx' = <<0>>
    /\ remaining' = [p \in 1..(Cardinality(DOMAIN coords) - 1) |-> p]
    /\ route_pc' = "nn"
    /\ UNCHANGED <<prog, coords, Sequence, txn, tour, unvisited, best, improved,
                   i, j, k, pack_vars>>

\* optimize_route reads the frame: one stop returns 0.0, otherwise
\* nearest_neighbor_order starts at row 0.
OptimizeStart ==
    /\ prog = "optimize_route" /\ route_pc = "start"
    /\ IF Cardinality(DOMAIN coords) = 1
       THEN route_pc' = "done" /\ UNCHANGED <<route_idx, remaining>>
       ELSE /\ route_idx' = <<0>>
            /\ remaining' = [p \in 1..(Cardinality(DOMAIN coords) - 1) |-> p]
            /\ route_pc' = "nn"
    /\ UNCHANGED <<prog, coords, Sequence, txn, tour, unvisited, best, improved,
                   i, j, k, pack_vars>>

\* One turn of "while remaining"; remaining.remove(None) raises.
OptimizeNearestStep ==
    /\ prog = "optimize_route" /\ route_pc = "nn"
    /\ remaining # <<>>
    /\ LET best_j == nearest_scan(remaining, Last(route_idx), coords, None, best_d_start)
       IN  IF best_j = None
           THEN route_pc' = "failed" /\ UNCHANGED <<route_idx, remaining>>
           ELSE /\ route_idx' = Append(route_idx, best_j)
                /\ remaining' = list_remove(remaining, best_j)
                /\ UNCHANGED route_pc
    /\ UNCHANGED <<prog, coords, Sequence, txn, tour, unvisited, best, improved,
                   i, j, k, pack_vars>>

\* Phase 1, db.exec, committed: Sequence = Sequence + 1000 for the dispatch;
\* then the executemany of phase 2 begins.
OptimizePhase1 ==
    /\ prog = "optimize_route" /\ route_pc = "nn"
    /\ remaining = <<>>
    /\ Sequence' = [s \in DOMAIN Sequence |-> Sequence[s] + SequenceShift]
    /\ txn' = Sequence'
    /\ k' = 0
    /\ route_pc' = "write"
    /\ UNCHANGED <<prog, coords, tour, unvisited, best, improved, i, j, route_idx,
                   remaining, pack_vars>>

\* db.executemany runs the UPDATE for the next row, inside its transaction.
ExecmanyRow ==
    /\ route_pc = "write"
    /\ k < Len(update_rows)
    /\ txn' = update_sequence(txn, update_rows[k + 1])
    /\ k' = k + 1
    /\ UNCHANGED <<prog, coords, Sequence, route_pc, tour, unvisited, best,
                   improved, i, j, route_idx, remaining, pack_vars>>

\* All rows done: conn.commit(); the sequencer returns.
ExecmanyCommit ==
    /\ route_pc = "write"
    /\ k = Len(update_rows)
    /\ Sequence' = txn
    /\ txn' = <<>>
    /\ route_pc' = "done"
    /\ UNCHANGED <<prog, coords, tour, unvisited, best, improved, i, j, route_idx,
                   remaining, k, pack_vars>>

\* Where the table has the unique key on (Dispatch_id, Sequence) that
\* optimize_route's comments speak of, the UPDATE that made two ranks equal
\* is refused: executemany raises and the transaction is rolled back.
UniqueKeyRefused ==
    /\ route_pc = "write"
    /\ has_duplicate_rank(txn)
    /\ txn' = <<>>
    /\ route_pc' = "failed"
    /\ UNCHANGED <<prog, coords, Sequence, tour, unvisited, best, improved, i, j,
                   route_idx, remaining, k, pack_vars>>

RouteNext ==
    \/ RecomputeStart
    \/ NearestNeighborStep
    \/ TwoOptStart
    \/ TwoOptWhile
    \/ TwoOptCompare
    \/ OptimizeStart
    \/ OptimizeNearestStep
    \/ OptimizePhase1
    \/ ExecmanyRow
    \/ ExecmanyCommit
    \/ UniqueKeyRefused

RouteSpec == RouteInit /\ [][RouteNext]_vars

\* The sequencer is one sequential program: it keeps taking its next step.
RouteLive == RouteInit /\ [][RouteNext]_vars /\ WF_vars(RouteNext)

\* ------------------------------------- optimize_route beside load_packages
\* optimize_route runs on a dispatch while pack, started for the same
\* dispatch from another session, is about to call load_packages.
PlanInit ==
    /\ prog = "optimize_route"
    /\ coords \in Meridians
    /\ Sequence = [s \in StopIds(coords) |-> s - Stop_id(0) + 1]
    /\ txn = <<>>
    /\ route_pc = "start"
    /\ tour = <<>>
    /\ unvisited = {}
    /\ best = <<>>
    /\ improved = FALSE
    /\ i = 0
    /\ j = 0
    /\ route_idx = <<>>
    /\ remaining = <<>>
    /\ k = 0
    /\ truck = [L |-> 0, W |-> 0, H |-> 0, max_weight |-> 0]
    /\ packages = <<>>
    /\ pk = pack_locals
    /\ pack_pc = "start"
    /\ LoadPlan = {}
    /\ Placement = {}
    /\ ranks_seen = <<>>

\* load_packages: one SELECT joining wh.DispatchStop, which sees the ranks
\* as last committed (no lock and no version spans the two sessions).
LoadPackages ==
    /\ pack_pc = "start"
    /\ ranks_seen' = Sequence
    /\ pack_pc' = "loaded"
    /\ UNCHANGED <<truck, packages, pk, LoadPlan, Placement, route_vars>>

PlanNext ==
    \/ OptimizeStart
    \/ OptimizeNearestStep
    \/ OptimizePhase1
    \/ ExecmanyRow
    \/ ExecmanyCommit
    \/ LoadPackages

PlanSpec == PlanInit /\ [][PlanNext]_vars

\* ------------------------------------------------ a dispatch of many stops
\* optimize_route on ManyStops stops ranked 1..ManyStops: all at one point
\* but the stop of rank 2, which lies away and is visited last.
LongInit ==
    /\ prog = "optimize_route"
    /\ coords = [idx \in 0..(ManyStops - 1) |-> IF idx = 1 THEN <<MaxLat, 0>> ELSE <<0, 0>>]
    /\ Sequence = [s \in StopIds(coords) |-> s - Stop_id(0) + 1]
    /\ txn = <<>>
    /\ route_pc = "start"
    /\ tour = <<>>
    /\ unvisited = {}
    /\ best = <<>>
    /\ improved = FALSE
    /\ i = 0
    /\ j = 0
    /\ route_idx = <<>>
    /\ remaining = <<>>
    /\ k = 0
    /\ PackIdle

LongNext ==
    \/ OptimizeStart
    \/ OptimizeNearestStep
    \/ OptimizePhase1
    \/ ExecmanyRow
    \/ ExecmanyCommit

LongSpec == LongInit /\ [][LongNext]_vars

\* ================================================================== claims
\* ---------------------------------------------------------------- packing
\* The input rows by identifier, and the placed identifiers.
InputIds == {packages[n].Package_id : n \in 1..Len(packages)}
PlacedIds == {pk.placed[q].Package_id : q \in 1..Len(pk.placed)}
DroppedIds == {id \in InputIds : \A q \in 1..Len(pk.placed) : pk.placed[q].Package_id # id}
RowOf(id) == CHOOSE r \in {packages[n] : n \in 1..Len(packages)} : r.Package_id = id

\* The weight of the placed packages, summed from the input rows.
PlacedWeight == SumSeq([q \in 1..Len(pk.placed) |-> RowOf(pk.placed[q].Package_id).Weight_lbs])

\* C1: after every iteration of the placement loop, and when pack has
\* finished, the weights of the placed packages sum to at most the truck's
\* maximum weight.
C1_PlacedWeightWithinLimit == PlacedWeight <= truck.max_weight

\* C1's case: a finished run that loaded the truck exactly to its limit and
\* left a package out.
C1_Witness ==
    /\ pack_pc = "done"
    /\ pk.placed # <<>>
    /\ DroppedIds # {}
    /\ PlacedWeight = truck.max_weight

\* C2: with a truck of positive size and packages of positive size, every
\* recorded placement lies inside the truck on all three axes, also when the
\* package is longer than L or wider than W.
C2_PlacementsInsideTruck ==
    (truck.L > 0 /\ truck.W > 0 /\ truck.H > 0) =>
        \A q \in 1..Len(pk.placed) :
            LET p == pk.placed[q]
            IN  /\ p.X_cm >= 0 /\ p.Y_cm >= 0 /\ p.Z_cm >= 0
                /\ p.X_cm + p.Length_cm <= truck.L
                /\ p.Y_cm + p.Width_cm <= truck.W
                /\ p.Z_cm + p.Height_cm <= truck.H

\* C7: the placed identifiers are input identifiers, none appears twice in
\* the placement list, and every input package is either placed or dropped,
\* the dropped ones being exactly the input ones that were not placed.
C7_PlacedOnceFromInput ==
    /\ PlacedIds \subseteq InputIds
    /\ \A q, r \in 1..Len(pk.placed) :
          q # r => pk.placed[q].Package_id # pk.placed[r].Package_id
    /\ Cardinality(PlacedIds) + Cardinality(DroppedIds) = Len(packages)
    /\ DroppedIds = InputIds \ PlacedIds

\* C7's case: a finished run that placed some packages and dropped another.
C7_Witness ==
    /\ pack_pc = "done"
    /\ Len(pk.placed) >= 2
    /\ DroppedIds # {}

\* C8: whenever a LoadPlan row is visible, all placements of its run are
\* visible with it; a plan without placements is seen only when the run
\* placed nothing.  (Stated for trucks of positive size.)
C8_LoadPlanWithAllPlacements ==
    (truck.L > 0 /\ truck.W > 0 /\ truck.H > 0) =>
        \A lp \in LoadPlan :
            {p \in Placement : p.Loadplan_id = lp.Loadplan_id}
                = placement_rows(lp.Loadplan_id, pk)

\* C10: invalid input (a truck dimension <= 0, a negative package weight or
\* dimension) is rejected before the loop: nothing is placed, nothing written.
InvalidInput ==
    \/ truck.L <= 0 \/ truck.W <= 0 \/ truck.H <= 0
    \/ \E n \in 1..Len(packages) :
          \/ packages[n].Weight_lbs < 0
          \/ packages[n].Length_cm < 0
          \/ packages[n].Width_cm < 0
          \/ packages[n].Height_cm < 0

C10_InvalidInputRejected ==
    InvalidInput => (pk.placed = <<>> /\ LoadPlan = {} /\ Placement = {})

\* The volume of the placed packages, from the input rows.
PlacedVolume ==
    SumSeq([q \in 1..Len(pk.placed) |->
              LET r == RowOf(pk.placed[q].Package_id)
              IN  r.Length_cm * r.Width_cm * r.Height_cm])
TruckVolume == truck.L * truck.W * truck.H

\* The frames load_packages may return for the rows it has returned: its
\* ORDER BY fixes the order by rank and weight and nothing else.
Frames ==
    {f \in {[n \in 1..Len(packages) |-> packages[p[n]]] :
                p \in Permutations(1..Len(packages))} :
        \A n \in 1..(Len(f) - 1) : load_packages_order(SubSeq(f, 1, n), f[n + 1])}

\* C11: pack run again on the same packages, ranks and truck yields the same
\* placement list and the same two utilization values (the order of stops
\* with distinct ranks, which the sequencer reads, is a single one).
C11_PackSameOnSameInput ==
    \A f \in Frames :
        LET again == pack_rows(pack_locals, f, truck)
        IN  /\ again.placed = pk.placed
            /\ util_weight(again, truck) = util_weight(pk, truck)
            /\ util_volume(again, truck) = util_volume(pk, truck)

\* The scenario of the three cubes: the truck and the frame.
C13_Scenario ==
    /\ truck = [L |-> 200, W |-> 100, H |-> 100, max_weight |-> 1000]
    /\ Len(packages) = 3
    /\ \A n \in 1..3 :
          /\ packages[n].Weight_lbs = 400
          /\ packages[n].Length_cm = 100
          /\ packages[n].Width_cm = 100
          /\ packages[n].Height_cm = 100

\* C13: truck 200 x 100 x 100, maximum weight 1000, three packages of
\* 100 x 100 x 100 weighing 400 each: the first two are placed at (0,0,0) and
\* (100,0,0), the third alone is dropped, weight utilization is 80.0 and
\* volume utilization 100.0.
C13_ThirdCubeDropped ==
    C13_Scenario =>
        /\ Len(pk.placed) = 2
        /\ pk.placed[1].Package_id = 1
        /\ <<pk.placed[1].X_cm, pk.placed[1].Y_cm, pk.placed[1].Z_cm>> = <<0, 0, 0>>
        /\ pk.placed[2].Package_id = 2
        /\ <<pk.placed[2].X_cm, pk.placed[2].Y_cm, pk.placed[2].Z_cm>> = <<100, 0, 0>>
        /\ DroppedIds = {3}
        /\ \A lp \in LoadPlan : lp.Util_weight_pct = 800 /\ lp.Util_volume_pct = 1000

\* C13's case: the scenario has run to its end.
C13_Witness == C13_Scenario /\ pack_pc = "done" /\ LoadPlan # {} /\ Placement # {}

\* The frame is one package of exactly the truck's size and maximum weight.
C14_ExactFit ==
    /\ truck.max_weight > 0
    /\ Len(packages) = 1
    /\ packages[1].Weight_lbs = truck.max_weight
    /\ packages[1].Length_cm = truck.L
    /\ packages[1].Width_cm = truck.W
    /\ packages[1].Height_cm = truck.H

\* C14: a single package of exactly the truck's size and maximum weight
\* (M > 0) is placed at (0,0,0) and both utilizations are 100.0.
C14_ExactFitPlaced ==
    C14_ExactFit =>
        /\ Len(pk.placed) = 1
        /\ pk.placed[1].Package_id = 1
        /\ <<pk.placed[1].X_cm, pk.placed[1].Y_cm, pk.placed[1].Z_cm>> = <<0, 0, 0>>
        /\ \A lp \in LoadPlan : lp.Util_weight_pct = 1000 /\ lp.Util_volume_pct = 1000

\* C14's case: such a run has written its plan and its placement.
C14_Witness == C14_ExactFit /\ pack_pc = "done" /\ LoadPlan # {} /\ Placement # {}

\* C16: on an empty package list pack places nothing, reports both
\* utilizations as 0, inserts no Placement row, and its last step (the
\* Placement insert that is skipped) cannot fail.
C16_EmptyListPacked ==
    /\ [](packages = <<>> =>
             /\ pk.placed = <<>>
             /\ Placement = {}
             /\ \A lp \in LoadPlan : lp.Util_weight_pct = 0 /\ lp.Util_volume_pct = 0)
    /\ [][(packages = <<>> /\ pack_pc = "insert_placements") => pack_pc' = "done"]_vars

\* C16's case: a run on no package at all, for a truck of positive size and
\* weight limit, has returned.
C16_Witness ==
    /\ packages = <<>> /\ pack_pc = "done" /\ LoadPlan # {}
    /\ truck.max_weight > 0 /\ TruckVolume > 0

\* u is num / den * 100 to the nearest tenth, in tenths of a percent.
IsNearestTenth(u, num, den) ==
    LET g == GCD(num, den)
    IN  2 * Abs((den \div g) * u - 1000 * (num \div g)) <= den \div g

\* C18: weight utilization is the placed weight over the maximum weight
\* times 100, rounded to one decimal, and 0 when the maximum weight is 0;
\* volume utilization is the placed volume over L x W x H times 100, rounded
\* to one decimal, and 0 when L x W x H is 0; only placed packages count.
C18_UtilizationOfPlaced ==
    \A lp \in LoadPlan :
        /\ IF truck.max_weight = 0 THEN lp.Util_weight_pct = 0
           ELSE IsNearestTenth(lp.Util_weight_pct, PlacedWeight, truck.max_weight)
        /\ IF TruckVolume = 0 THEN lp.Util_volume_pct = 0
           ELSE IsNearestTenth(lp.Util_volume_pct, PlacedVolume, TruckVolume)

\* C18's case: a plan whose weight percentage had to be rounded, of a run
\* that dropped a package.
C18_Witness ==
    /\ LoadPlan # {}
    /\ DroppedIds # {}
    /\ truck.max_weight > 0 /\ TruckVolume > 0
    /\ (1000 * PlacedWeight) % truck.max_weight # 0
    /\ PlacedVolume > 0

\* C23: the placement list follows the order (stop rank descending, then
\* weight descending): for a placement before another, its rank is not
\* lower, and at equal ranks its weight is not lower.
C23_PlacedInRankWeightOrder ==
    \A q, r \in 1..Len(pk.placed) :
        q < r =>
            LET a == RowOf(pk.placed[q].Package_id)
                b == RowOf(pk.placed[r].Package_id)
            IN  /\ a.StopSequence >= b.StopSequence
                /\ a.StopSequence = b.StopSequence => a.Weight_lbs >= b.Weight_lbs

\* C23's case: a finished run whose placements span two ranks and two
\* weights within a rank, with a package dropped between placed ones.
C23_Witness ==
    /\ pack_pc = "done"
    /\ Len(pk.placed) = 2
    /\ DroppedIds = {2}
    /\ RowOf(1).StopSequence > RowOf(3).StopSequence
    /\ RowOf(1).Weight_lbs < RowOf(3).Weight_lbs

\* C24: the running total weight and the cursor z never decrease, and every
\* dropped package fails, at every cursor state reached after its drop, the
\* weight test or the height test.
C24_DroppedCannotBePlacedLater ==
    /\ [][pk'.total_weight >= pk.total_weight /\ pk'.z >= pk.z]_vars
    /\ [](\A d \in DroppedIds :
             \/ pk.total_weight + RowOf(d).Weight_lbs > truck.max_weight
             \/ pk.z + RowOf(d).Height_cm > truck.H)

\* C24's case: a finished run that dropped its first package for height
\* (its weight alone is within the limit) and placed a later one.
C24_Witness ==
    /\ pack_pc = "done"
    /\ 1 \in DroppedIds
    /\ RowOf(1).Weight_lbs <= truck.max_weight
    /\ PlacedIds = {2, 3}

\* (z, y, x) of a is below (z, y, x) of b in lexicographic order.
OriginBefore(a, b) ==
    \/ a.Z_cm < b.Z_cm
    \/ a.Z_cm = b.Z_cm /\ a.Y_cm < b.Y_cm
    \/ a.Z_cm = b.Z_cm /\ a.Y_cm = b.Y_cm /\ a.X_cm < b.X_cm

\* C25: along the placement list the origins (z, y, x) strictly increase in
\* lexicographic order (packages have positive dimensions).
C25_SingleSweep ==
    \A q \in 1..(Len(pk.placed) - 1) : OriginBefore(pk.placed[q], pk.placed[q + 1])

\* C25's case: three placements, the second in a further row of the first
\* layer, the third in a higher layer.
C25_Witness ==
    /\ pack_pc = "done"
    /\ Len(pk.placed) = 3
    /\ pk.placed[2].Z_cm = pk.placed[1].Z_cm
    /\ pk.placed[2].Y_cm > pk.placed[1].Y_cm
    /\ pk.placed[3].Z_cm > pk.placed[2].Z_cm

\* The boxes of the placements a and b have disjoint interiors.
Disjoint(a, b) ==
    \/ a.X_cm + a.Length_cm <= b.X_cm \/ b.X_cm + b.Length_cm <= a.X_cm
    \/ a.Y_cm + a.Width_cm <= b.Y_cm \/ b.Y_cm + b.Width_cm <= a.Y_cm
    \/ a.Z_cm + a.Height_cm <= b.Z_cm \/ b.Z_cm + b.Height_cm <= a.Z_cm

\* C27: no two placements of one run overlap (packages have positive
\* dimensions), also when packages dropped for weight or height have moved
\* the cursor in between.
C27_NoOverlap ==
    \A q, r \in 1..Len(pk.placed) : q < r => Disjoint(pk.placed[q], pk.placed[r])

\* C27's case: the second package opened a new layer and was then dropped
\* for height, not for weight; the third was placed in that layer.
C27_Witness ==
    /\ pack_pc = "done"
    /\ DroppedIds = {2}
    /\ Len(pk.placed) = 2
    /\ pk.total_weight + RowOf(2).Weight_lbs <= truck.max_weight
    /\ pk.placed[2].Z_cm > 0
    /\ pk.placed[2].Height_cm < RowOf(2).Height_cm

\* ------------------------------------------------------------- sequencing
NStops == Cardinality(DOMAIN coords)
orig_order == [p \in 1..NStops |-> p - 1]
StopOrder(order) == [p \in 1..Len(order) |-> Stop_id(order[p])]
IsPermutation(order, S) ==
    /\ Len(order) = Cardinality(S)
    /\ {order[p] : p \in 1..Len(order)} = S

\* two_opt holds an order (from best = order[:] on), or has returned it.
TwoOptRunning == prog = "routing_opt" /\ route_pc \in {"two_opt", "scan"}
TwoOptReturned == prog = "routing_opt" /\ route_pc \in {"write", "done", "failed"}
\* nearest_neighbor_order has returned its order.
OptimizeOrdered ==
    prog = "optimize_route" /\ route_pc \in {"write", "done", "failed"} /\ route_idx # <<>>

\* C3: the order of nearest neighbour followed by 2-opt (at every moment of
\* two_opt and on return) and the order of nearest_neighbor_order hold every
\* input stop exactly once and nothing else.
C3_OrderIsPermutation ==
    /\ (TwoOptRunning \/ TwoOptReturned) => IsPermutation(StopOrder(best), StopIds(coords))
    /\ OptimizeOrdered => IsPermutation(StopOrder(route_idx), StopIds(coords))

\* C3's case: 2-opt has changed the nearest-neighbour order of five stops or
\* more and the result is written.
C3_Witness ==
    /\ prog = "routing_opt" /\ route_pc = "done"
    /\ NStops >= 5
    /\ best # tour

\* C4: the order written back is never longer than the input order (the
\* stops by their rank before the call).
C4_WrittenOrderNotLonger ==
    ((TwoOptReturned \/ OptimizeOrdered) /\ route_pc = "done") =>
        route_length(computed_order, coords) <= route_length(orig_order, coords)

\* C5: every reversal two_opt makes strictly shortens the path, and the
\* order it returns is no longer than the nearest-neighbour order it got.
C5_TwoOptNeverLengthens ==
    /\ [][(route_pc = "scan" /\ best' # best) =>
             route_length(best', coords) < route_length(best, coords)]_vars
    /\ [](TwoOptReturned => route_length(best, coords) <= route_length(tour, coords))

\* C5's case: two_opt has returned an order strictly shorter than the
\* nearest-neighbour order.
C5_Witness ==
    /\ TwoOptReturned
    /\ route_length(best, coords) < route_length(tour, coords)

\* C6: nearest neighbour makes exactly n - 1 selections (each turn moves one
\* stop from unvisited to the tour) and the "while improved" loop comes to
\* a pass without reversal: every run reaches the return of the sequencer.
C6_SequencerTerminates ==
    /\ []((prog = "routing_opt" /\ route_pc = "nn") =>
             (Len(tour) + Cardinality(unvisited) = NStops /\ Len(tour) >= 1))
    /\ <>(route_pc \in {"write", "done", "failed"})

\* C6's case: two_opt has returned after a pass that reversed a segment
\* (so at least two passes ran) on five stops or more.
C6_Witness ==
    /\ prog = "routing_opt" /\ route_pc = "write" /\ k = 0
    /\ Len(best) >= 5
    /\ best # tour

\* C9: while recompute_dispatch_sequence rewrites the ranks row by row, no
\* two stops of the dispatch hold the same rank.
C9_NoDuplicateRankDuringRewrite ==
    (prog = "routing_opt" /\ route_pc = "write") => ~has_duplicate_rank(txn)

\* C12: two_opt honours a cap on its passes; with a cap of one pass, once
\* the first pass has ended with a reversal made, two_opt returns the order
\* it holds instead of starting another pass.
C12_TwoOptStopsAtCap ==
    [][(prog = "routing_opt" /\ route_pc = "two_opt" /\ improved /\ best # tour)
          => route_pc' = "write"]_vars

\* The side and the diagonal of the square of four stops in crossed order.
SquareSide == haversine_km(coords[0], coords[2])
SquareDiagonal == haversine_km(coords[0], coords[1])
\* a is about b: within a tenth of the side.
About(a, b) == 10 * Abs(a - b) <= SquareSide

\* recompute_dispatch_sequence has returned for the corners of a square.
SquareDone == prog = "routing_opt" /\ route_pc = "done" /\ coords \in Squares
\* The parts of the scenario: the order, the comparison, the two distances.
SquarePerimeterOrder == SquareDone => best \in {<<0, 2, 1, 3>>, <<0, 3, 1, 2>>}
SquareShorterThanCrossed ==
    SquareDone => route_length(best, coords) < route_length(orig_order, coords)
SquareDistances ==
    SquareDone =>
        /\ About(route_length(best, coords), 4 * SquareSide)
        /\ About(route_length(orig_order, coords), 2 * SquareDiagonal + 2 * SquareSide)

\* C15: for the four corners of a square in crossed order, the sequencer
\* returns the perimeter order from the first stop, of distance about four
\* sides, strictly below the distance of the crossed order, which is about
\* two diagonals plus two sides.
C15_SquareScenario ==
    /\ SquarePerimeterOrder
    /\ SquareShorterThanCrossed
    /\ SquareDistances

\* C17: with exactly one stop optimize_route returns at once, computing no
\* order and writing no rank, and recompute_dispatch_sequence returns the
\* order of that one stop, of distance 0, the stop keeping rank 1.
C17_OneStop ==
    /\ (NStops = 1 /\ prog = "optimize_route") =>
          /\ route_pc \in {"start", "done"}
          /\ route_idx = <<>>
          /\ txn = <<>>
          /\ Sequence = [s \in StopIds(coords) |-> 1]
    /\ (NStops = 1 /\ prog = "routing_opt" /\ route_pc = "done") =>
          /\ best = <<0>>
          /\ route_length(best, coords) = 0
          /\ Sequence = [s \in StopIds(coords) |-> 1]

\* C17's case: optimize_route has returned for a dispatch of one stop.
C17_Witness == NStops = 1 /\ prog = "optimize_route" /\ route_pc = "done"

\* The ranks before the call.
OldRanks == [s \in StopIds(coords) |-> s - Stop_id(0) + 1]

\* C19: the ranks load_packages reads are the ranks before optimize_route
\* touched them or the final ranks it has committed: the read never falls
\* between phase 1 and the end of phase 2.
C19_RanksReadOutsideRewrite ==
    pack_pc = "loaded" =>
        \/ ranks_seen = OldRanks
        \/ route_pc = "done" /\ ranks_seen = Sequence

\* C20: in optimize_route's rewrite the ranks are pairwise distinct after
\* phase 1 and after each single row update of phase 2, for every number of
\* stops (each update leaves the updated stop's rank unlike all others).
C20_DistinctRanksInTwoPhase ==
    /\ []((prog = "optimize_route" /\ route_pc = "write" /\ k = 0) =>
             \A s \in DOMAIN txn : txn[s] = OldRanks[s] + SequenceShift)
    /\ [][(prog = "optimize_route" /\ route_pc = "write" /\ k' = k + 1) =>
             LET updated == Stop_id(route_idx[k'])
             IN  \A s \in DOMAIN txn' \ {updated} : txn'[s] # txn'[updated]]_vars

\* C21: when optimize_route or recompute_dispatch_sequence has completed on
\* two stops or more, the stop at position p of the computed order has rank
\* p, and the ranks of the dispatch are exactly 1..N, none twice.
C21_RanksAreOrderPositions ==
    (route_pc = "done" /\ NStops >= 2) =>
        /\ \A p \in 1..NStops : Sequence[Stop_id(computed_order[p])] = p
        /\ {Sequence[s] : s \in DOMAIN Sequence} = 1..NStops
        /\ ~has_duplicate_rank(Sequence)

\* C21's case: a completed run whose order differs from the input order.
C21_Witness ==
    /\ route_pc = "done"
    /\ NStops >= 3
    /\ computed_order # orig_order
    /\ Sequence # OldRanks

\* m is, among the candidates, nearest to the stop last and, among the
\* nearest, of lowest index.
NearestLowest(m, candidates, last) ==
    /\ m \in candidates
    /\ \A o \in candidates :
          /\ haversine_km(coords[last], coords[m]) <= haversine_km(coords[last], coords[o])
          /\ haversine_km(coords[last], coords[m]) = haversine_km(coords[last], coords[o])
                => m <= o

C26_TwoOptLocalOptimum ==
    TwoOptReturned =>
        \A pi, pj \in 1..(Len(best) - 2) :
            pi < pj =>
                haversine_km(coords[At(best, pi - 1)], coords[At(best, pj)])
                  + haversine_km(coords[At(best, pi)], coords[At(best, pj + 1)])
                >= haversine_km(coords[At(best, pi - 1)], coords[At(best, pi)])
                     + haversine_km(coords[At(best, pj)], coords[At(best, pj + 1)])

\* C26's case: two_opt has returned an order of five stops that it changed.
C26_Witness ==
    /\ TwoOptReturned
    /\ Len(best) = 5
    /\ best # tour
    /\ route_length(best, coords) > 0

\* C28: two_opt never moves the first or the last element of the order it
\* is given, and the first stop of the input order keeps rank 1.
C28_EndsStay ==
    /\ (TwoOptRunning \/ TwoOptReturned) =>
          /\ best[1] = tour[1]
          /\ Last(best) = Last(tour)
    /\ (prog = "routing_opt" /\ route_pc = "done") => Sequence[Stop_id(0)] = 1

\* C28's case: a completed run in which two_opt changed the inside of an
\* order of four stops or more.
C28_Witness ==
    /\ prog = "routing_opt" /\ route_pc = "done"
    /\ Len(best) >= 4
    /\ best # tour
    /\ Sequence[Stop_id(0)] = 1

====
